---- MODULE Spec2Model ----
(***************************************************************************)
(* The SWIMA software inventory collector (swima_collector.c): the         *)
(* identifier extractor, the tag stream readers, the generator invoker,    *)
(* the filesystem tag walker and the collector's two public operations;    *)
(* and the SM2 key exchange of the gmalg plugin                             *)
(* (gmalg_ec_diffie_hellman.c).                                            *)
(*                                                                         *)
(* Byte strings are TLA+ strings, one character per byte. C pointers into  *)
(* a string are 1-based indexes into it; 0 stands for NULL.                *)
(***************************************************************************)
EXTENDS Integers, Sequences, FiniteSets, TLC

VARIABLES
    db,           \* this->db: TRUE iff a collector database is attached
    sw_id_only,   \* this->sw_id_only
    inventory,    \* this->inventory: the records, in insertion order
    inv_eid,      \* this->inventory's (last_eid, eid_epoch)
    events,       \* this->events: the events, in insertion order
    ev_eid,       \* this->events' (last_eid, eid_epoch)
    cfg,          \* what the constructor met: the settings, the database
    env,          \* what the calls meet: filesystem, generator, database
    call,         \* the arguments of the latest call
    ret,          \* what the latest call returned and what it did
    prior,        \* null: the latest collect_inventory returned NULL;
                  \* partial: it began on records a call that returned
                  \* NULL had left in the store
    dh            \* the private_gmalg_ec_diffie_hellman_t object, if any

vars ==
    <<db, sw_id_only, inventory, inv_eid, events, ev_eid, cfg, env, call, ret,
      prior, dh>>

\* No key exchange object.
NO_KE == [group |-> "none"]

(***************************************************************************)
(* Bytes and C string functions                                            *)
(***************************************************************************)
QUOTE == "\""
NL == "\n"
\* The byte 0x00, which a TLA+ string literal cannot hold: "@" stands for it.
NUL == "@"

min(a, b) == IF a < b THEN a ELSE b

Least(S) == CHOOSE i \in S : \A j \in S : i <= j

At(s, i) == SubSeq(s, i, i)

\* strlen(s): the bytes before the first NUL.
strlen(s) ==
    LET nuls == {i \in 1..Len(s) : At(s, i) = NUL}
    IN  IF nuls = {} THEN Len(s) ELSE Least(nuls) - 1

\* strndup(s, n): a NUL-terminated copy of at most n bytes, ending at the
\* first NUL of s.
strndup(s, n) == SubSeq(s, 1, min(n, strlen(s)))

\* strstr(s + from - 1, needle) on a C string s: the index of the first
\* occurrence at or after from, 0 (NULL) when there is none.
strstr(s, from, needle) ==
    LET hits == {i \in from..(Len(s) - Len(needle) + 1) :
                    SubSeq(s, i, i + Len(needle) - 1) = needle}
    IN  IF hits = {} THEN 0 ELSE Least(hits)

\* strchr(s + from - 1, c)
strchr(s, from, c) == strstr(s, from, c)

streq(a, b) == a = b

SUCCESS == "SUCCESS"
NOT_FOUND == "NOT_FOUND"
NOT_SUPPORTED == "NOT_SUPPORTED"
FAILED == "FAILED"

SOURCE_ID_GENERATOR == 1
SOURCE_ID_COLLECTOR == 2

(***************************************************************************)
(* extract_sw_id: the software identifier of a SWID tag                    *)
(***************************************************************************)
TAGID_TOKEN == "tagId=\""
REGID_TOKEN == "regid=\""

\* The bytes of the tag that are copied and searched.
EXTRACT_WINDOW == 1023

\* A variant that joins the two values the other way round.
sw_id_cat_swapped(regid, tagid) == tagid \o "__" \o regid

\* chunk_cat("ccc", regid, "__", tagid)
sw_id_cat(regid, tagid) == regid \o "__" \o tagid

\* Each local operator is the function from one search to the next: tag is
\* the copy, tagid and regid index the first byte of each value, pos the
\* closing quote found (0 for none).
extract_sw_id(swid_tag) ==
    LET not_found == [status |-> NOT_FOUND, sw_id |-> ""]
        RegidEnd(tag, tagid, tagid_len, regid, pos) ==
            IF pos = 0 THEN not_found
            ELSE [status |-> SUCCESS,
                  sw_id  |-> sw_id_cat(
                                 SubSeq(tag, regid, regid + (pos - regid) - 1),
                                 SubSeq(tag, tagid, tagid + tagid_len - 1))]
        Regid(tag, tagid, tagid_len, regid) ==
            IF regid = 0 THEN not_found
            ELSE RegidEnd(tag, tagid, tagid_len, regid + 7,
                          strchr(tag, regid + 7, QUOTE))
        TagidEnd(tag, tagid, pos) ==
            IF pos = 0 THEN not_found
            ELSE Regid(tag, tagid, pos - tagid,
                       strstr(tag, pos, REGID_TOKEN))
        Tagid(tag, tagid) ==
            IF tagid = 0 THEN not_found
            ELSE TagidEnd(tag, tagid + 7, strchr(tag, tagid + 7, QUOTE))
        Copy(tag) == Tagid(tag, strstr(tag, 1, TAGID_TOKEN))
    IN  Copy(strndup(swid_tag, min(EXTRACT_WINDOW, Len(swid_tag))))

(***************************************************************************)
(* Records and the inventory (swima_record_t, swima_inventory_t)           *)
(***************************************************************************)
swima_record_create(record_id, sw_id, sw_locator) ==
    [record_id |-> record_id, sw_id |-> sw_id, sw_locator |-> sw_locator,
     source_id |-> 0, record |-> ""]

set_source_id(sw_record, source_id) == [sw_record EXCEPT !.source_id = source_id]

set_record(sw_record, swid_tag) == [sw_record EXCEPT !.record = swid_tag]

\* inventory->add(): the record goes to the end of the list.
add(list, item) == Append(list, item)

\* A variant that keeps the records.
clear_kept(list) == list

\* inventory->clear()
clear(list) == <<>>

get_count(list) == Len(list)

(***************************************************************************)
(* read_swid_tags, read_swid_tag_ids: the streams of the swid_generator    *)
(* A stream is the string of its bytes; a FILE is the stream and the       *)
(* index of the next byte to read. Streams are text: they hold no NUL.     *)
(***************************************************************************)
\* char line[8192] of read_swid_tags
LINE_SIZE == 8192

\* char line[BUF_LEN] of read_swid_tag_ids
BUF_LEN == 512

\* fgets(line, size, file): the bytes up to and including the next newline,
\* at most size - 1 of them; "" stands for NULL (end of the stream).
fgets(file, pos, size) ==
    LET Line(last, nls) ==
            SubSeq(file, pos, IF nls = {} THEN last ELSE Least(nls))
        Upto(last) == Line(last, {i \in pos..last : At(file, i) = NL})
    IN  IF pos > Len(file) THEN ""
        ELSE Upto(min(Len(file), pos + size - 2))

\* A variant that ends a tag at every chunk that begins with a newline.
is_boundary_any(last_newline, line) == At(line, 1) = NL

\* The test that ends a tag: an empty line after a line that ended cleanly.
is_boundary(last_newline, line) == last_newline /\ At(line, 1) = NL

\* Whether the bytes read make a tag to extract.
is_tag(swid_tag) == Len(swid_tag) > 1

\* The inner loop of read_swid_tags: the lines of one tag.
RECURSIVE read_tag_lines(_, _, _, _)
read_tag_lines(file, pos, last_newline, buf) ==
    LET Write(line, len) ==
            read_tag_lines(file, pos + Len(line), At(line, len) = NL,
                           buf \o SubSeq(line, 1, len))
        Got(line) ==
            IF line = ""
            THEN [buf |-> buf, pos |-> pos, more_tags |-> FALSE]
            ELSE IF is_boundary(last_newline, line)
            THEN [buf |-> buf, pos |-> pos + Len(line), more_tags |-> TRUE]
            ELSE Write(line, strlen(line))
    IN  Got(fgets(file, pos, LINE_SIZE))

\* The outer loop of read_swid_tags, from byte pos of the stream on.
RECURSIVE read_swid_tags(_, _, _)
read_swid_tags(inv, file, pos) ==
    LET More(r, inv2) ==
            IF r.more_tags
            THEN read_swid_tags(inv2, file, r.pos)
            ELSE [status |-> SUCCESS, inventory |-> inv2]
        Extracted(r, swid_tag, x) ==
            IF x.status # SUCCESS
            THEN [status |-> x.status, inventory |-> inv]
            ELSE More(r, add(inv,
                             set_record(
                                 set_source_id(
                                     swima_record_create(0, x.sw_id, ""),
                                     SOURCE_ID_GENERATOR),
                                 swid_tag)))
        Stripped(r, swid_tag) ==
            Extracted(r, swid_tag, extract_sw_id(swid_tag))
        Buffered(r) ==
            IF is_tag(r.buf)
            THEN IF At(r.buf, Len(r.buf)) = NL
                 THEN Stripped(r, SubSeq(r.buf, 1, Len(r.buf) - 1))
                 ELSE Stripped(r, r.buf)
            ELSE More(r, inv)
    IN  Buffered(read_tag_lines(file, pos, TRUE, ""))

RECURSIVE read_swid_tag_ids(_, _, _)
read_swid_tag_ids(inv, file, pos) ==
    LET Id(line, len) ==
            read_swid_tag_ids(
                add(inv, set_source_id(
                             swima_record_create(0, SubSeq(line, 1, len), ""),
                             SOURCE_ID_GENERATOR)),
                file, pos + Len(line))
        Measured(line, len) ==
            IF len > 0 /\ At(line, len) = NL
            THEN Id(line, len - 1)
            ELSE Id(line, len)
        Got(line) ==
            IF line = ""
            THEN [status |-> SUCCESS, inventory |-> inv]
            ELSE Measured(line, strlen(line))
    IN  Got(fgets(file, pos, BUF_LEN))

(***************************************************************************)
(* retrieve_inventory, retrieve_events: the collector database             *)
(* A query is what db->query() gave: ok = FALSE for no enumerator, else    *)
(* the rows in the order of the query's ORDER BY.                          *)
(***************************************************************************)
RECURSIVE enumerate_identifiers(_, _, _)
enumerate_identifiers(inv, rows, i) ==
    IF i > Len(rows) THEN inv ELSE
    LET sw_record == set_source_id(
                         swima_record_create(rows[i].id, rows[i].name, ""),
                         rows[i].source)
    IN  enumerate_identifiers(add(inv, sw_record), rows, i + 1)

retrieve_inventory(inv, targets, query) ==
    IF ~query.ok
    THEN [status |-> FAILED, inventory |-> inv, commands |-> <<>>]
    ELSE [status |-> SUCCESS, commands |-> <<>>,
          inventory |-> enumerate_identifiers(inv, query.rows, 1)]

swima_event_create(eid, timestamp, action, sw_record) ==
    [eid |-> eid, timestamp |-> timestamp, action |-> action,
     sw_record |-> sw_record]

RECURSIVE enumerate_events(_, _, _)
enumerate_events(evs, rows, i) ==
    IF i > Len(rows) THEN evs ELSE
    LET sw_record == set_source_id(
                         swima_record_create(rows[i].id, rows[i].name, ""),
                         rows[i].source)
        sw_event  == swima_event_create(rows[i].eid, rows[i].timestamp,
                                        rows[i].action, sw_record)
    IN  enumerate_events(add(evs, sw_event), rows, i + 1)

\* The rows of the query are those with s.eid >= earliest_eid.
retrieve_events(evs, earliest_eid, query) ==
    IF ~query.ok
    THEN [status |-> FAILED, events |-> evs]
    ELSE [status |-> SUCCESS,
          events |-> enumerate_events(
                         evs,
                         SelectSeq(query.rows, LAMBDA r : r.eid >= earliest_eid),
                         1)]

(***************************************************************************)
(* generate_tags: the swid_generator child process                         *)
(* A generator is [starts, exit, pkgs]: whether popen() gives a stream,    *)
(* the exit status pclose() would report, and the packages the tool        *)
(* knows, each with its software identifier and its SWID tag.              *)
(***************************************************************************)
SWID_GENERATOR == "/usr/local/bin/swid_generator"

doc_separator == "'\n\n'"

snprintf(size, s) == SubSeq(s, 1, min(Len(s), size - 1))

flag_args(pretty, full) ==
    (IF pretty THEN " --pretty" ELSE "") \o (IF full THEN " --full" ELSE "")

RECURSIVE JoinIds(_, _)
JoinIds(pkgs, i) ==
    IF i > Len(pkgs) THEN "" ELSE pkgs[i].id \o NL \o JoinIds(pkgs, i + 1)

RECURSIVE JoinTags(_, _)
JoinTags(pkgs, i) ==
    IF i > Len(pkgs) THEN ""
    ELSE pkgs[i].doc \o (IF i < Len(pkgs) THEN NL \o NL ELSE NL)
             \o JoinTags(pkgs, i + 1)

\* What the tool writes to its standard output for a command line.
swid_generator(gen, command) ==
    LET flags == {flag_args(p, f) : p \in BOOLEAN, f \in BOOLEAN}
        One(one) == IF one # {} THEN gen.pkgs[Least(one)].doc \o NL ELSE ""
    IN  IF command = SWID_GENERATOR \o " software-id"
        THEN JoinIds(gen.pkgs, 1)
        ELSE IF \E fl \in flags :
                    command = SWID_GENERATOR \o " swid --doc-separator "
                                  \o doc_separator \o fl
        THEN JoinTags(gen.pkgs, 1)
        ELSE One({i \in 1..Len(gen.pkgs) :
                      \E fl \in flags :
                          command = SWID_GENERATOR \o " swid --software-id "
                                        \o gen.pkgs[i].id \o fl})

\* popen(command, "r"): ok = FALSE for NULL, else the child's output.
popen(gen, command) ==
    IF gen.starts
    THEN [ok |-> TRUE, file |-> swid_generator(gen, command)]
    ELSE [ok |-> FALSE, file |-> ""]

\* The loop of generate_tags over the targets, from target i on.
RECURSIVE generate_target_tags(_, _, _, _, _, _, _)
generate_target_tags(g, generator, targets, pretty, full, gen, i) ==
    LET Read(g1, r) ==
            IF r.status # SUCCESS
            THEN [g1 EXCEPT !.status = r.status, !.inventory = r.inventory]
            ELSE generate_target_tags(
                     [g1 EXCEPT !.status = r.status,
                                !.inventory = r.inventory],
                     generator, targets, pretty, full, gen, i + 1)
        Opened(g1, file) ==
            IF ~file.ok
            THEN [g1 EXCEPT !.status = NOT_SUPPORTED]
            ELSE Read(g1, read_swid_tags(g1.inventory, file.file, 1))
        Run(command) ==
            Opened([g EXCEPT !.commands = Append(@, command)],
                   popen(gen, command))
    IN  IF i > Len(targets) THEN g
        ELSE Run(snprintf(BUF_LEN, generator \o " swid --software-id "
                                       \o targets[i].sw_id
                                       \o flag_args(pretty, full)))

\* generate_tags gives the status, the inventory and the commands it ran.
generate_tags(inv, id_only, generator, targets, pretty, full, gen) ==
    LET Read(command, r) ==
            [status |-> r.status, inventory |-> r.inventory,
             commands |-> <<command>>]
        Opened(command, file) ==
            IF ~file.ok
            THEN [status |-> NOT_SUPPORTED, inventory |-> inv,
                  commands |-> <<command>>]
            ELSE IF id_only
            THEN Read(command, read_swid_tag_ids(inv, file.file, 1))
            ELSE Read(command, read_swid_tags(inv, file.file, 1))
        Run(command) == Opened(command, popen(gen, command))
    IN  IF get_count(targets) = 0
        THEN IF id_only
             THEN Run(snprintf(BUF_LEN, generator \o " software-id"))
             ELSE Run(snprintf(BUF_LEN,
                               generator \o " swid --doc-separator "
                                   \o doc_separator
                                   \o flag_args(pretty, full)))
        ELSE IF ~id_only
        THEN generate_target_tags(
                 [status |-> SUCCESS, inventory |-> inv, commands |-> <<>>],
                 generator, targets, pretty, full, gen, 1)
        ELSE [status |-> SUCCESS, inventory |-> inv, commands |-> <<>>]

(***************************************************************************)
(* collect_tags: the walk over the swidtag files of a directory tree       *)
(* A filesystem maps the path of each directory that can be opened to its  *)
(* entries, in the order the directory enumerator yields them. An entry    *)
(* is [name, dir, map, data]: its name, whether stat() says directory,     *)
(* whether chunk_map() of it succeeds, and the bytes mapped.               *)
(***************************************************************************)
skip_directories ==
    <<"/usr/share/doc", "/usr/share/help", "/usr/share/icons",
      "/usr/share/gnome/help">>

\* An unset directory setting (NULL).
NO_DIRECTORY == ""

\* The absolute name the directory enumerator gives an entry.
abs_path(pathname, rel_name) ==
    IF At(pathname, Len(pathname)) = "/"
    THEN pathname \o rel_name
    ELSE pathname \o "/" \o rel_name

\* A variant that skips no directory.
skip_none(abs_name) == FALSE

\* Whether the entry is a directory of skip_directories.
skip_directory(abs_name) ==
    \E i \in 1..Len(skip_directories) : streq(abs_name, skip_directories[i])

\* A variant in which the mode of the parent is not inherited.
enters_swidtag_mode_unsticky(is_swidtag_dir, rel_name) ==
    streq(rel_name, "swidtag")

\* The mode a subdirectory is walked in.
enters_swidtag_mode(is_swidtag_dir, rel_name) ==
    LET is_new_swidtag_dir == streq(rel_name, "swidtag")
    IN  is_swidtag_dir \/ is_new_swidtag_dir

matches_target(targets, sw_id) ==
    \E i \in 1..Len(targets) : targets[i].sw_id = sw_id

sw_locator_of(pathname) ==
    LET pos == strstr(pathname, 1, "/swidtag")
    IN  IF pos # 0 THEN SubSeq(pathname, 1, pos - 1) ELSE ""

\* A walk w is [ok, inventory, entered, opened]: the result so far, the
\* inventory, the directories walked (with their mode) and the entries
\* handed to chunk_map(), both in the order of the walk.
RECURSIVE collect_tags(_, _, _, _, _, _)
RECURSIVE collect_entries(_, _, _, _, _, _, _)

\* The while loop of collect_tags, from entry i of the directory on.
collect_entries(w, fs, pathname, targets, is_swidtag_dir, id_only, i) ==
    LET Continue(w1) ==
            collect_entries(w1, fs, pathname, targets, is_swidtag_dir,
                            id_only, i + 1)
        Record(e, sw_id) ==
            IF ~id_only
            THEN set_record(
                     set_source_id(
                         swima_record_create(0, sw_id,
                                             sw_locator_of(pathname)),
                         SOURCE_ID_COLLECTOR),
                     e.data)
            ELSE set_source_id(
                     swima_record_create(0, sw_id, sw_locator_of(pathname)),
                     SOURCE_ID_COLLECTOR)
        Extracted(w2, e, x) ==
            IF x.status # SUCCESS THEN [w2 EXCEPT !.ok = FALSE]
            ELSE IF get_count(targets) # 0
                    /\ ~matches_target(targets, x.sw_id)
            THEN Continue(w2)
            ELSE Continue([w2 EXCEPT !.inventory =
                               add(@, Record(e, x.sw_id))])
        Mapped(w2, e) ==
            IF ~e.map THEN [w2 EXCEPT !.ok = FALSE]
            ELSE Extracted(w2, e, extract_sw_id(e.data))
        Entry(w1, e, rel_name, abs_name) ==
            IF ~w1.ok THEN w1
            ELSE IF ~is_swidtag_dir THEN Continue(w1)
            ELSE IF strstr(rel_name, 1, ".swidtag") = 0 THEN Continue(w1)
            ELSE Mapped([w1 EXCEPT !.opened =
                             Append(@, [path |-> abs_name, dir |-> e.dir])],
                        e)
        Stat(e, rel_name, abs_name) ==
            IF e.dir
            THEN IF skip_directory(abs_name)
                 THEN Continue(w)
                 ELSE Entry(collect_tags(w, fs, abs_name, targets,
                                         enters_swidtag_mode(is_swidtag_dir,
                                                             rel_name),
                                         id_only),
                            e, rel_name, abs_name)
            ELSE Entry([w EXCEPT !.ok = TRUE], e, rel_name, abs_name)
        Enumerated(e) == Stat(e, e.name, abs_path(pathname, e.name))
    IN  IF i > Len(fs[pathname]) THEN [w EXCEPT !.ok = TRUE]
        ELSE Enumerated(fs[pathname][i])

collect_tags(w, fs, pathname, targets, is_swidtag_dir, id_only) ==
    IF pathname = NO_DIRECTORY THEN [w EXCEPT !.ok = TRUE]
    ELSE IF pathname \notin DOMAIN fs THEN [w EXCEPT !.ok = FALSE]
    ELSE collect_entries(
             [w EXCEPT !.entered =
                  Append(@, [path |-> pathname, mode |-> is_swidtag_dir])],
             fs, pathname, targets, is_swidtag_dir, id_only, 1)

(***************************************************************************)
(* The collector: swima_collector_create, collect_inventory,               *)
(* collect_events                                                          *)
(***************************************************************************)
\* uint32_t eid_epoch = 0x11223344
DEFAULT_EID_EPOCH == 287454020

\* lib->settings->get_int(): the configured value, else the default.
get_int(c, def) == IF c.eid_epoch_set THEN c.eid_epoch ELSE def

\* Whether the constructor keeps the database: it opened and the query for
\* the last event gave a row.
attaches(c) ==
    IF c.database
    THEN IF c.connects
         THEN IF ~c.query.ok \/ Len(c.query.rows) = 0
              THEN FALSE
              ELSE TRUE
         ELSE FALSE
    ELSE FALSE

\* c is what the constructor meets: whether a database URI is configured,
\* whether the database opens, the answer to the last-event query and the
\* eid_epoch setting.
swima_collector_create(c) ==
    LET enumerated == c.database /\ c.connects /\ c.query.ok
                          /\ Len(c.query.rows) > 0
        last_eid   == IF enumerated THEN c.query.rows[1].id ELSE 1
        eid_epoch0 == IF enumerated THEN c.query.rows[1].epoch
                      ELSE DEFAULT_EID_EPOCH
        this_db    == attaches(c)
        eid_epoch  == IF ~this_db THEN get_int(c, eid_epoch0) ELSE eid_epoch0
    IN  [db |-> this_db, inventory |-> <<>>, events |-> <<>>,
         eid |-> <<last_eid, eid_epoch>>]

\* A variant that also wants the walk to have succeeded.
returns_inventory_if_walked(status, walk_ok) == status = SUCCESS /\ walk_ok

\* return status == SUCCESS ? this->inventory : NULL
returns_inventory(status, walk_ok) == status = SUCCESS

\* The walk of source 2 starts from what source 1 left in the inventory.
source2(s1, e, targets, id_only) ==
    collect_tags([ok |-> FALSE, inventory |-> s1.inventory,
                  entered |-> <<>>, opened |-> <<>>],
                 e.fs, e.directory, targets, FALSE, id_only)

\* e is what the call meets: the settings, the filesystem, the generator
\* and the database's answer.
collect_inventory(this_db, inv, id_only, targets, e) ==
    LET Result(inv0, from_db, s1, w) ==
            [inventory |-> w.inventory,
             ret |-> [op         |-> "collect_inventory",
                      result     |-> IF returns_inventory(s1.status, w.ok)
                                     THEN "inventory" ELSE "NULL",
                      status     |-> s1.status,
                      source     |-> IF from_db THEN "database"
                                     ELSE "generator",
                      commands   |-> s1.commands,
                      walk_ok    |-> w.ok,
                      entered    |-> w.entered,
                      opened     |-> w.opened,
                      source1    |-> Len(s1.inventory) - Len(inv0),
                      discovered |-> SubSeq(w.inventory, Len(inv0) + 1,
                                            Len(w.inventory))]]
        Source2(inv0, from_db, s1) ==
            Result(inv0, from_db, s1, source2(s1, e, targets, id_only))
        Source1(inv0, from_db) ==
            IF from_db
            THEN Source2(inv0, from_db,
                         retrieve_inventory(inv0, targets, e.inventory_query))
            ELSE Source2(inv0, from_db,
                         generate_tags(inv0, id_only, e.generator, targets,
                                       e.pretty, e.full, e.gen))
    IN  Source1(clear(inv), id_only /\ this_db)

\* A variant that does not look at the database.
events_unavailable_ignoring_db(id_only, this_db) == ~id_only

\* if (!sw_id_only || !this->db) return NULL
events_unavailable(id_only, this_db) == ~id_only \/ ~this_db

collect_events(this_db, this_id_only, evs, id_only, targets_eid, e) ==
    IF events_unavailable(id_only, this_db)
    THEN [sw_id_only |-> this_id_only, events |-> evs, result |-> "NULL",
          status |-> "unavailable"]
    ELSE
    LET r == retrieve_events(clear(evs), targets_eid, e.events_query)
    IN  [sw_id_only |-> id_only, events |-> r.events,
         result |-> IF r.status = SUCCESS THEN "events" ELSE "NULL",
         status |-> r.status]

(***************************************************************************)
(* What the collector meets: tags, packages, database rows, filesystems    *)
(***************************************************************************)
\* A SWID tag with the given tagId and regid.
Tag(T, R) == "<S tagId=\"" \o T \o "\" n=\"v\" regid=\"" \o R \o "\"/>"

\* The software identifier the tag format defines for (tagId, regid).
SwId(T, R) == R \o "__" \o T

Pkg(T, R) == [id |-> SwId(T, R), doc |-> Tag(T, R)]

\* A tag that holds no tagId, and a package with such a tag.
BrokenTag == "<S broken=\"1\"/>"

BadPkg == [id |-> "R__x", doc |-> BrokenTag]

Prefixes(pool, n) == {SubSeq(pool, 1, k) : k \in 0..min(n, Len(pool))}

Reverse(q) == [i \in 1..Len(q) |-> q[Len(q) + 1 - i]]

MaxPkgs == 2
MaxRows == 2
MaxTargets == 2

PkgPool == <<Pkg("a", "R"), BadPkg, Pkg("b", "R"), Pkg("c", "R")>>

Generators ==
    {[starts |-> FALSE, exit |-> 1, pkgs |-> <<>>]}
        \cup {[starts |-> TRUE, exit |-> x, pkgs |-> ps] :
                  x \in {0, 1}, ps \in Prefixes(PkgPool, MaxPkgs)}

QuietGenerator == [starts |-> TRUE, exit |-> 0, pkgs |-> <<>>]

TargetPool ==
    <<swima_record_create(0, SwId("a", "R"), ""),
      swima_record_create(0, SwId("c", "R"), ""),
      swima_record_create(0, SwId("b", "R"), ""),
      swima_record_create(0, SwId("d", "R"), "")>>

TargetSets == Prefixes(TargetPool, MaxTargets)

\* sw_identifiers rows with installed = 1, ordered by name.
IdentifierPool ==
    <<[id |-> 1, name |-> SwId("a", "R"), source |-> 3],
      [id |-> 2, name |-> SwId("b", "R"), source |-> 3],
      [id |-> 3, name |-> SwId("c", "R"), source |-> 4],
      [id |-> 4, name |-> SwId("d", "R"), source |-> 4]>>

NoAnswer == [ok |-> FALSE, rows |-> <<>>]

InventoryQueries ==
    {NoAnswer}
        \cup {[ok |-> TRUE, rows |-> rs] :
                  rs \in Prefixes(IdentifierPool, MaxRows)}

\* sw_events rows joined with events and sw_identifiers, ordered by eid.
EventPool ==
    <<[eid |-> 1, timestamp |-> "2017-01-01T00:00:00Z", id |-> 1,
       name |-> SwId("a", "R"), source |-> 3, action |-> 1],
      [eid |-> 2, timestamp |-> "2017-01-02T00:00:00Z", id |-> 2,
       name |-> SwId("b", "R"), source |-> 3, action |-> 1],
      [eid |-> 3, timestamp |-> "2017-01-03T00:00:00Z", id |-> 1,
       name |-> SwId("a", "R"), source |-> 3, action |-> 2],
      [eid |-> 4, timestamp |-> "2017-01-04T00:00:00Z", id |-> 3,
       name |-> SwId("c", "R"), source |-> 4, action |-> 1]>>

EventQueries ==
    {NoAnswer}
        \cup {[ok |-> TRUE, rows |-> rs] : rs \in Prefixes(EventPool, MaxRows)}

File(name, data) == [name |-> name, dir |-> FALSE, map |-> TRUE, data |-> data]

Unreadable(name) == [name |-> name, dir |-> FALSE, map |-> FALSE, data |-> ""]

\* A directory entry. chunk_map() of a directory fails, or maps nothing:
\* how is "fails" or "empty".
Dir(name) == [name |-> name, dir |-> TRUE, map |-> FALSE, data |-> ""]

DirAs(name, how) ==
    [name |-> name, dir |-> TRUE, map |-> how = "empty", data |-> ""]

NoFs == [p \in {} |-> <<>>]

Order(f, q) == IF f.rev THEN Reverse(q) ELSE q

\* The tree under root that f describes:
\*   a/swidtag/x.swidtag       f.x: "none", "good", "bad" or "unreadable"
\*   a/swidtag/sub/z.swidtag   f.sub
\*   a/swidtag/d.swidtag/      f.dirtag: "none", "fails" or "empty",
\*     with q.swidtag in it
\*   b/y.swidtag               f.y
\*   doc/swidtag/k.swidtag     f.doc = "doc"
\*   gnome/help/swidtag/k.swidtag   f.doc = "gnome"
\* f.rev reverses the order in which the entries are enumerated.
WalkTree(root, f) ==
    LET a   == abs_path(root, "a")
        tag == abs_path(a, "swidtag")
        b   == abs_path(root, "b")
        doc == abs_path(root, "doc")
        gn  == abs_path(root, "gnome")
        hlp == abs_path(gn, "help")
        xs  == CASE f.x = "none" -> <<>>
                 [] f.x = "good" -> <<File("x.swidtag", Tag("a", "R"))>>
                 [] f.x = "bad" -> <<File("x.swidtag", BrokenTag)>>
                 [] OTHER -> <<Unreadable("x.swidtag")>>
    IN  (root :> Order(f, <<Dir("a")>>
                          \o (IF f.y THEN <<Dir("b")>> ELSE <<>>)
                          \o (IF f.doc = "doc" THEN <<Dir("doc")>> ELSE <<>>)
                          \o (IF f.doc = "gnome" THEN <<Dir("gnome")>>
                              ELSE <<>>)))
        @@ (a :> <<Dir("swidtag")>>)
        @@ (tag :> Order(f, <<File("readme", "text")>> \o xs
                            \o (IF f.sub THEN <<Dir("sub")>> ELSE <<>>)
                            \o (IF f.dirtag # "none"
                                THEN <<DirAs("d.swidtag", f.dirtag)>>
                                ELSE <<>>)))
        @@ (IF f.sub
            THEN abs_path(tag, "sub") :> <<File("z.swidtag", Tag("z", "R"))>>
            ELSE NoFs)
        @@ (IF f.dirtag # "none"
            THEN abs_path(tag, "d.swidtag") :>
                     <<File("q.swidtag", Tag("q", "R"))>>
            ELSE NoFs)
        @@ (IF f.y
            THEN b :> <<File("y.swidtag", Tag("y", "R"))>>
            ELSE NoFs)
        @@ (IF f.doc = "doc"
            THEN (doc :> <<Dir("swidtag")>>)
                     @@ (abs_path(doc, "swidtag") :>
                             <<File("k.swidtag", Tag("k", "R"))>>)
            ELSE NoFs)
        @@ (IF f.doc = "gnome"
            THEN (gn :> <<Dir("help")>>)
                     @@ (hlp :> <<Dir("swidtag")>>)
                     @@ (abs_path(hlp, "swidtag") :>
                             <<File("k.swidtag", Tag("k", "R"))>>)
            ELSE NoFs)

TreeShapes ==
    [x : {"none", "good", "bad", "unreadable"}, sub : BOOLEAN,
     dirtag : {"none", "fails", "empty"}, y : BOOLEAN,
     doc : {"none", "doc", "gnome"}, rev : BOOLEAN]

WalkRoots == {"/usr/share", "/usr/share/doc", "/opt/swidtag"}

Surroundings(directory, fs) ==
    [directory |-> directory, fs |-> fs, generator |-> SWID_GENERATOR,
     pretty |-> FALSE, full |-> FALSE, gen |-> QuietGenerator,
     inventory_query |-> NoAnswer, events_query |-> NoAnswer]

\* What the walks meet: every tree under every root, and a root that
\* cannot be opened.
WalkEnvs ==
    {Surroundings(r, WalkTree(r, f)) : r \in WalkRoots, f \in TreeShapes}
        \cup {Surroundings("/nonexistent", NoFs)}

GoodTree ==
    WalkTree("/usr/share",
             [x |-> "good", sub |-> TRUE, dirtag |-> "none", y |-> FALSE,
              doc |-> "none", rev |-> FALSE])

FailingTree ==
    WalkTree("/usr/share",
             [x |-> "bad", sub |-> TRUE, dirtag |-> "none", y |-> FALSE,
              doc |-> "none", rev |-> TRUE])

\* What the calls meet: no directory, a tree with two tags, a tree whose
\* walk fails after a tag; every generator; every answer to the inventory
\* query when a database is attached.
Envs(this_db) ==
    {[s EXCEPT !.gen = g, !.inventory_query = iq, !.events_query = eq] :
         s \in {Surroundings(NO_DIRECTORY, NoFs),
                Surroundings("/usr/share", GoodTree),
                Surroundings("/usr/share", FailingTree)},
         g \in Generators,
         iq \in (IF this_db THEN InventoryQueries ELSE {NoAnswer}),
         eq \in (IF this_db THEN {[ok |-> TRUE, rows |-> EventPool]}
                 ELSE {NoAnswer})}

LastEventQueries ==
    {NoAnswer, [ok |-> TRUE, rows |-> <<>>],
     [ok |-> TRUE, rows |-> <<[id |-> 2, epoch |-> 7]>>]}

\* The constructions: no URI; a URI that does not open; a query that fails,
\* gives no row, or gives the last event (id, epoch); with and without an
\* eid_epoch setting.
Constructions ==
    [database : BOOLEAN, connects : BOOLEAN, query : LastEventQueries,
     eid_epoch_set : BOOLEAN, eid_epoch : {9}]

NoDatabase ==
    [database |-> FALSE, connects |-> FALSE, query |-> NoAnswer,
     eid_epoch_set |-> FALSE, eid_epoch |-> 9]

WithDatabase ==
    [database |-> TRUE, connects |-> TRUE,
     query |-> [ok |-> TRUE, rows |-> <<[id |-> 2, epoch |-> 7]>>],
     eid_epoch_set |-> FALSE, eid_epoch |-> 9]

(***************************************************************************)
(* The collector specifications                                            *)
(***************************************************************************)
Created(c, e) ==
    LET this == swima_collector_create(c)
    IN  /\ db = this.db
        /\ sw_id_only = FALSE
        /\ inventory = this.inventory
        /\ inv_eid = this.eid
        /\ events = this.events
        /\ ev_eid = this.eid
        /\ cfg = c
        /\ env = e
        /\ call = [op |-> "create"]
        /\ ret = [op |-> "create", result |-> "collector", status |-> SUCCESS]
        /\ prior = [null |-> FALSE, partial |-> FALSE]
        /\ dh = NO_KE

\* Every construction, with a generator that knows one package and every
\* answer to the events query.
Init ==
    \E c \in Constructions :
        \E e \in {[Surroundings(NO_DIRECTORY, NoFs) EXCEPT
                       !.gen = g, !.events_query = q] :
                      g \in {[starts |-> TRUE, exit |-> 0,
                              pkgs |-> <<Pkg("a", "R")>>]},
                      q \in EventQueries} :
            Created(c, e)

CollectInventory ==
    \E o \in BOOLEAN, t \in TargetSets :
        LET r == collect_inventory(db, inventory, o, t, env)
        IN  /\ sw_id_only' = o
            /\ inventory' = r.inventory
            /\ call' = [op |-> "collect_inventory", sw_id_only |-> o,
                        targets |-> t]
            /\ ret' = r.ret
            /\ prior' = [null |-> r.ret.result = "NULL",
                         partial |-> prior.null /\ Len(inventory) > 0]
            /\ UNCHANGED <<db, inv_eid, events, ev_eid, cfg, env, dh>>

CollectEvents ==
    \E o \in BOOLEAN, eid \in 1..MaxRows :
        LET r == collect_events(db, sw_id_only, events, o, eid, env)
        IN  /\ sw_id_only' = r.sw_id_only
            /\ events' = r.events
            /\ call' = [op |-> "collect_events", sw_id_only |-> o,
                        targets_eid |-> eid]
            /\ ret' = [op |-> "collect_events", result |-> r.result,
                       status |-> r.status]
            /\ UNCHANGED <<db, inventory, inv_eid, ev_eid, cfg, env, prior, dh>>

Next == CollectInventory \/ CollectEvents

Spec == Init /\ [][Next]_vars

\* The inventory calls of a collector without and with a database, in
\* every surroundings.
InitInventory ==
    \E c \in {NoDatabase, WithDatabase} :
        \E e \in Envs(swima_collector_create(c).db) : Created(c, e)

NextInventory == CollectInventory

SpecInventory == InitInventory /\ [][NextInventory]_vars

\* The walks of every tree, with no database and a generator that finds
\* nothing.
InitWalk == \E e \in WalkEnvs : Created(NoDatabase, e)

SpecWalk == InitWalk /\ [][NextInventory]_vars

(***************************************************************************)
(* extract_sw_id on its own (SpecExtract)                                  *)
(***************************************************************************)
\* The state of a collector that is not part of the function under study.
Standalone(c, inv) ==
    /\ db = FALSE
    /\ sw_id_only = FALSE
    /\ inventory = inv
    /\ inv_eid = <<1, DEFAULT_EID_EPOCH>>
    /\ events = <<>>
    /\ ev_eid = <<1, DEFAULT_EID_EPOCH>>
    /\ cfg = NoDatabase
    /\ env = Surroundings(NO_DIRECTORY, NoFs)
    /\ call = c
    /\ ret = [op |-> "none"]
    /\ prior = [null |-> FALSE, partial |-> FALSE]
    /\ dh = NO_KE

\* n filler bytes.
RECURSIVE Pad(_)
Pad(n) ==
    LET Twice(h) == h \o h
    IN  IF n <= 0 THEN ""
        ELSE IF n % 2 = 1 THEN "x" \o Pad(n - 1)
        ELSE Twice(Pad(n \div 2))

\* How many bytes beyond the window the closing quote of the pattern is put.
MaxOver == 1

TagIdValues == {"a", ""}

RegidValues == {"R", "org.x"}

\* The texts under study: head ends with the closing quote of the regid
\* value when the text is complete, tail follows it.
ExtractShapes(T, R) ==
    LET t == "tagId=\"" \o T \o "\""
        r == "regid=\"" \o R \o "\""
    IN  { [shape |-> "full", complete |-> TRUE,
           head |-> "<S " \o t \o " n=\"v\" " \o r, tail |-> "/>"],
          [shape |-> "regidFirst", complete |-> TRUE,
           head |-> "<S regid=\"Q\" " \o t \o " " \o r, tail |-> "/>"],
          [shape |-> "twoRegids", complete |-> TRUE,
           head |-> "<S " \o t \o " " \o r, tail |-> " regid=\"S\"/>"],
          [shape |-> "nulAfter", complete |-> TRUE,
           head |-> "<S " \o t \o " " \o r, tail |-> NUL \o "/>"],
          [shape |-> "nulBefore", complete |-> TRUE,
           head |-> NUL \o "<S " \o t \o " " \o r, tail |-> "/>"],
          [shape |-> "noTagToken", complete |-> FALSE,
           head |-> "<S tagid=\"" \o T \o "\" " \o r, tail |-> "/>"],
          [shape |-> "noTagClose", complete |-> FALSE,
           head |-> "<S n=\"v\" tagId=\"" \o T, tail |-> " "],
          [shape |-> "noRegidToken", complete |-> FALSE,
           head |-> "<S " \o t \o " regId=\"" \o R \o "\"", tail |-> "/>"],
          [shape |-> "noRegidClose", complete |-> FALSE,
           head |-> "<S " \o t \o " regid=\"" \o R, tail |-> "/>"],
          [shape |-> "regidBefore", complete |-> FALSE,
           head |-> "<S " \o r \o " " \o t, tail |-> "/>"] }

\* The lengths of filler put before a head: none, the ones that put the end
\* of the head at the last byte of the window and up to MaxOver bytes
\* beyond it, and a whole window.
PadLengths(head) ==
    {0, EXTRACT_WINDOW}
        \cup {EXTRACT_WINDOW + o - Len(head) : o \in 0..MaxOver}

ExtractInputs ==
    {[op |-> "extract_sw_id", swid_tag |-> "", T |-> "", R |-> "",
      shape |-> "empty", complete |-> FALSE, end |-> 0]}
        \cup UNION UNION
               {{{[op |-> "extract_sw_id",
                   swid_tag |-> Pad(n) \o x.head \o x.tail,
                   T |-> T, R |-> R, shape |-> x.shape,
                   complete |-> x.complete, end |-> n + Len(x.head)] :
                      n \in PadLengths(x.head)} :
                     x \in ExtractShapes(T, R)} :
                    T \in TagIdValues, R \in RegidValues}

InitExtract == \E c \in ExtractInputs : Standalone(c, <<>>)

ExtractSwId ==
    /\ call.op = "extract_sw_id"
    /\ ret.op = "none"
    /\ ret' = [op |-> "extract_sw_id"] @@ extract_sw_id(call.swid_tag)
    /\ UNCHANGED <<db, sw_id_only, inventory, inv_eid, events, ev_eid, cfg,
                   env, call, prior, dh>>

NextExtract == ExtractSwId

SpecExtract == InitExtract /\ [][NextExtract]_vars

(***************************************************************************)
(* read_swid_tags on its own (SpecRead)                                    *)
(***************************************************************************)
\* The most tag documents of a stream, and the most empty lines between
\* two of them.
MaxDocs == 3

MaxBlank == 2

\* A tag whose first line fills a whole fgets() buffer, LINE_SIZE - 1
\* bytes before its newline.
LongTag ==
    LET Filled(first) ==
            first \o Pad(LINE_SIZE - 1 - Len(first)) \o NL \o "/>"
    IN  Filled("<S tagId=\"l\" regid=\"R\" ")

\* Extractable tag documents: of one line, of two lines, of a long line.
DocPool ==
    << [id |-> SwId("a", "R"), doc |-> Tag("a", "R")],
       [id |-> SwId("b", "R"), doc |-> "<S tagId=\"b\"" \o NL \o " regid=\"R\"/>"],
       [id |-> SwId("l", "R"), doc |-> LongTag] >>

\* n documents of the pool, from the one at start on.
DocsFrom(start, n) ==
    [i \in 1..n |-> DocPool[((start + i - 2) % Len(DocPool)) + 1]]

RECURSIVE Newlines(_)
Newlines(n) == IF n <= 0 THEN "" ELSE NL \o Newlines(n - 1)

\* The stream of the documents: lead empty lines, then the documents with
\* the terminator of the last line and gap empty lines between two of
\* them, then final newlines (none, the terminator, the terminator and
\* empty lines).
RECURSIVE Joined(_, _, _)
Joined(docs, gap, i) ==
    IF i > Len(docs) THEN ""
    ELSE docs[i].doc
             \o (IF i < Len(docs) THEN Newlines(1 + gap) ELSE "")
             \o Joined(docs, gap, i + 1)

Stream(docs, gap, lead, final) ==
    Newlines(lead) \o Joined(docs, gap, 1) \o Newlines(final)

ReadInputs ==
    {[op |-> "read_swid_tags", docs |-> DocsFrom(start, n),
      file |-> Stream(DocsFrom(start, n), gap, lead, final),
      gap |-> gap, lead |-> lead, final |-> final] :
         start \in 1..Len(DocPool), n \in 0..MaxDocs, gap \in 1..MaxBlank,
         lead \in 0..1, final \in 0..2}

\* The inventory holds nothing, or a record of the database.
InitRead ==
    \E c \in ReadInputs :
        \E inv \in {<<>>,
                    <<set_source_id(swima_record_create(0, "R__p", ""),
                                    SOURCE_ID_COLLECTOR)>>} :
            Standalone(c, inv)

ReadSwidTags ==
    /\ call.op = "read_swid_tags"
    /\ ret.op = "none"
    /\ LET r == read_swid_tags(inventory, call.file, 1)
       IN  /\ inventory' = r.inventory
           /\ ret' = [op |-> "read_swid_tags", status |-> r.status,
                      before |-> inventory]
    /\ UNCHANGED <<db, sw_id_only, inv_eid, events, ev_eid, cfg, env, call,
                   prior, dh>>

NextRead == ReadSwidTags

SpecRead == InitRead /\ [][NextRead]_vars

(***************************************************************************)
(* The SM2 key exchange (gmalg_ec_diffie_hellman.c, SpecKe)                *)
(*                                                                         *)
(* The curve is a group of GroupOrder points, the multiples n of a base    *)
(* point, n in 0..GroupOrder-1; a private key is a scalar. Keys and        *)
(* points are the values of ECCref_MAX_LEN bytes, not the bytes.           *)
(***************************************************************************)
GroupOrder == 5

Scalars == 1..(GroupOrder - 1)

\* The coordinates of the multiple n of the base point.
PointOf(n) == [x |-> n, y |-> (n * n + 1) % GroupOrder]

\* A pair of coordinates that is no point of the curve.
OffCurve == [x |-> 1, y |-> 0]

\* A key of a zeroed object.
ZeroPoint == [x |-> 0, y |-> 0]

CurvePoints == {PointOf(n) : n \in Scalars}

\* What memory that was never written may hold.
Uninitialized == CurvePoints \cup {OffCurve, ZeroPoint}

chunk_empty == <<>>

\* GMALG_pointMul_ECC(hDeviceHandle, pub, pri, P): P when the device works
\* and pub is a point of the curve; otherwise P is not written and keeps
\* what it held.
GMALG_pointMul_ECC(device, pub, pri, held) ==
    LET Mul(n) == PointOf((n * pri) % GroupOrder)
    IN  IF device /\ pub \in CurvePoints /\ pri \in Scalars
        THEN Mul(pub.x)
        ELSE held

\* memcpy of P->x and P->y into the secret.
xy(P) == <<P.x, P.y>>

\* compute_shared_key: always TRUE; the result of the device is not read.
\* held is what the local P holds before the call.
compute_shared_key(this, device, held) ==
    [ret |-> TRUE,
     shared_secret |->
         xy(GMALG_pointMul_ECC(device, this.otherPubKey, this.priKey, held))]

set_public_key(this, value, device, held) ==
    LET Computed(other, c) ==
            IF ~c.ret
            THEN [this |-> [other EXCEPT !.shared_secret = c.shared_secret],
                  ret |-> FALSE]
            ELSE [this |-> [other EXCEPT !.shared_secret = c.shared_secret,
                                         !.computed = TRUE],
                  ret |-> TRUE]
        Copied(other) == Computed(other, compute_shared_key(other, device, held))
    IN  Copied([this EXCEPT !.shared_secret = chunk_empty,
                            !.otherPubKey = value])

get_public_key(this) == [ret |-> TRUE, value |-> xy(this.pubKey)]

\* memcpy(this->priKey->K, value.ptr, ECCref_MAX_LEN)
private_key_copied(this, K) == [this EXCEPT !.priKey = K]

\* set_private_key: ret is never set; a value of another length is copied
\* all the same, read holding what ECCref_MAX_LEN bytes at value.ptr hold.
set_private_key(this, value, read) ==
    [this |-> private_key_copied(this, IF value.len_ok THEN value.K ELSE read),
     ret |-> FALSE]

get_shared_secret(this) ==
    IF ~this.computed
    THEN [ret |-> FALSE, secret |-> chunk_empty]
    ELSE [ret |-> TRUE, secret |-> this.shared_secret]

get_method(this) == this.group

CURVE_SM2 == "CURVE_SM2"

\* gmalg_ec_diffie_hellman_create: NULL for another group; the results of
\* the device are not read, and a key pair that was not generated is zero.
gmalg_ec_diffie_hellman_create(group, device, k) ==
    IF group # CURVE_SM2 THEN NO_KE
    ELSE [group |-> group,
          shared_secret |-> chunk_empty,
          pubKey |-> IF device THEN PointOf(k) ELSE ZeroPoint,
          priKey |-> IF device THEN k ELSE 0,
          otherPubKey |-> ZeroPoint,
          computed |-> FALSE]

\* The values a peer sends, and the values given as private key.
PeerValues == CurvePoints \cup {OffCurve}

PrivateValues ==
    [len_ok : {TRUE}, K : Scalars] \cup {[len_ok |-> FALSE, K |-> 0]}

InitKe ==
    \E group \in {CURVE_SM2, "ECP_256"}, device \in BOOLEAN, k \in Scalars :
        /\ dh = gmalg_ec_diffie_hellman_create(group, device, k)
        /\ env = [device |-> device]
        /\ call = [op |-> "gmalg_ec_diffie_hellman_create", group |-> group]
        /\ ret = [op |-> "gmalg_ec_diffie_hellman_create",
                  result |-> IF group = CURVE_SM2 THEN "ke" ELSE "NULL"]
        /\ prior = [public_key_set |-> FALSE, private_key_set |-> FALSE]
        /\ db = FALSE
        /\ sw_id_only = FALSE
        /\ inventory = <<>>
        /\ inv_eid = <<1, DEFAULT_EID_EPOCH>>
        /\ events = <<>>
        /\ ev_eid = <<1, DEFAULT_EID_EPOCH>>
        /\ cfg = NoDatabase

KeUnchanged ==
    UNCHANGED <<db, sw_id_only, inventory, inv_eid, events, ev_eid, cfg, env>>

SetPublicKey ==
    /\ dh # NO_KE
    /\ \E value \in PeerValues, held \in Uninitialized :
           LET r == set_public_key(dh, value, env.device, held)
           IN  /\ dh' = r.this
               /\ call' = [op |-> "set_public_key", value |-> value]
               /\ ret' = [op |-> "set_public_key", result |-> r.ret]
               /\ prior' = [prior EXCEPT !.public_key_set = TRUE]
    /\ KeUnchanged

GetPublicKey ==
    /\ dh # NO_KE
    /\ call' = [op |-> "get_public_key"]
    /\ ret' = [op |-> "get_public_key", result |-> get_public_key(dh).ret,
               value |-> get_public_key(dh).value]
    /\ UNCHANGED <<dh, prior>>
    /\ KeUnchanged

SetPrivateKey ==
    /\ dh # NO_KE
    /\ \E value \in PrivateValues, read \in Scalars :
           LET r == set_private_key(dh, value, read)
           IN  /\ dh' = r.this
               /\ call' = [op |-> "set_private_key", value |-> value]
               /\ ret' = [op |-> "set_private_key", result |-> r.ret]
               /\ prior' = [prior EXCEPT !.private_key_set = TRUE]
    /\ KeUnchanged

GetSharedSecret ==
    /\ dh # NO_KE
    /\ call' = [op |-> "get_shared_secret"]
    /\ ret' = [op |-> "get_shared_secret",
               result |-> get_shared_secret(dh).ret,
               secret |-> get_shared_secret(dh).secret]
    /\ UNCHANGED <<dh, prior>>
    /\ KeUnchanged

GetMethod ==
    /\ dh # NO_KE
    /\ call' = [op |-> "get_method"]
    /\ ret' = [op |-> "get_method", result |-> get_method(dh)]
    /\ UNCHANGED <<dh, prior>>
    /\ KeUnchanged

NextKe ==
    \/ SetPublicKey
    \/ GetPublicKey
    \/ SetPrivateKey
    \/ GetSharedSecret
    \/ GetMethod

SpecKe == InitKe /\ [][NextKe]_vars

(***************************************************************************)
(* Properties of collect_inventory (SpecInventory)                         *)
(***************************************************************************)
InventoryCalled == ret.op = "collect_inventory"

\* C1: every collect_inventory call runs the walk of source 2, whatever
\* source 1 did, and returns the inventory exactly when source 1 reported
\* success: the walk's own result changes nothing.
C1_ReturnsOnSource1Alone ==
    InventoryCalled =>
        /\ (ret.result = "inventory") <=> (ret.status = SUCCESS)
        /\ ret.result \in {"inventory", "NULL"}
        /\ env.directory # NO_DIRECTORY =>
               /\ ret.entered # <<>>
               /\ ret.entered[1].path = env.directory

\* C1: source 1 succeeded, the walk opened a file and failed, and the call
\* returned the inventory.
C1_Witness ==
    /\ InventoryCalled
    /\ ret.status = SUCCESS
    /\ ret.source1 > 0
    /\ ret.opened # <<>>
    /\ ~ret.walk_ok
    /\ ret.result = "inventory"

\* C2: after a collect_inventory call the inventory holds the records that
\* call discovered, in the order it discovered them, and nothing else,
\* whatever earlier calls left in the store.
C2_OnlyLatestCall == InventoryCalled => inventory = ret.discovered

\* C2: the call began on the records a call that returned NULL had left,
\* and discovered records of its own.
C2_Witness ==
    /\ InventoryCalled
    /\ prior.partial
    /\ ret.result = "inventory"
    /\ Len(inventory) > 0

\* C3: when source 1 is the generator and a child was run, a child that
\* cannot be started or that exits with a non-zero status makes
\* generate_tags fail and collect_inventory return NULL.
C3_GeneratorFailureIsHard ==
    (/\ InventoryCalled
     /\ ret.source = "generator"
     /\ ret.commands # <<>>
     /\ (~env.gen.starts \/ env.gen.exit # 0))
        => (ret.status # SUCCESS /\ ret.result = "NULL")

\* C4: with targets, every record of a returned inventory has the
\* software identifier of some target, whichever source found it.
C4_OnlyTargets ==
    (InventoryCalled /\ ret.result = "inventory" /\ Len(call.targets) > 0)
        => \A i \in 1..Len(inventory) :
               \E j \in 1..Len(call.targets) :
                   inventory[i].sw_id = call.targets[j].sw_id

(***************************************************************************)
(* Properties of the walk (SpecWalk)                                       *)
(***************************************************************************)
IsPrefix(p, q) == Len(p) <= Len(q) /\ SubSeq(q, 1, Len(p)) = p

\* The path lies below a directory of the exclusion list.
UnderExcluded(path) ==
    \E k \in 1..Len(skip_directories) :
        IsPrefix(skip_directories[k] \o "/", path)

AtOrUnderExcluded(path) ==
    \E k \in 1..Len(skip_directories) :
        path = skip_directories[k] \/ IsPrefix(skip_directories[k] \o "/", path)

\* C7, as claimed: whatever the configured root, no file below a directory
\* of the exclusion list is visited.
C7_NeverVisitsExcluded ==
    InventoryCalled =>
        \A i \in 1..Len(ret.opened) : ~UnderExcluded(ret.opened[i].path)

\* The directories of the tree that hold the tag file k.swidtag.
HoldersOfK ==
    {p \in DOMAIN env.fs :
         \E i \in 1..Len(env.fs[p]) : env.fs[p][i].name = "k.swidtag"}

\* C7, amended: when the configured root is not spelled as a directory of
\* the exclusion list or as a path below one, the walk enters no directory
\* whose path, as composed from the root and the entry names, equals an
\* entry of the list; no file reached through such a directory is visited
\* and none gives a record, even under a directory named swidtag.
C7_ExcludedNotEntered ==
    (InventoryCalled /\ ~AtOrUnderExcluded(env.directory)) =>
        /\ \A i \in 1..Len(ret.entered) :
               ~AtOrUnderExcluded(ret.entered[i].path)
        /\ \A i \in 1..Len(ret.opened) : ~UnderExcluded(ret.opened[i].path)
        /\ (\A p \in HoldersOfK : UnderExcluded(p)) =>
               \A i \in 1..Len(inventory) : inventory[i].sw_id # SwId("k", "R")

\* C7: the tree holds doc/swidtag/k.swidtag or gnome/help/swidtag/k.swidtag
\* under /usr/share, and the walk ended well after visiting other files.
C7_Witness ==
    /\ InventoryCalled
    /\ env.directory = "/usr/share"
    /\ \E p \in HoldersOfK : UnderExcluded(p)
    /\ ret.walk_ok
    /\ ret.opened # <<>>

\* The part of a path below the configured root, with a closing slash.
BelowRoot(path) == SubSeq(path, Len(env.directory) + 1, Len(path)) \o "/"

HasSwidtagDir(rel) == strstr(rel, 1, "/swidtag/") # 0

\* The tree root/a/swidtag/x.swidtag plus root/b/y.swidtag.
ExampleTrees ==
    {WalkTree(r, [x |-> "good", sub |-> FALSE, dirtag |-> "none", y |-> TRUE,
                  doc |-> "none", rev |-> v]) :
         r \in WalkRoots, v \in BOOLEAN}

\* The example of the tree on which exactly one record is expected.
ExampleGivesOneRecord ==
    (env.fs \in ExampleTrees /\ call.targets = <<>>) =>
        /\ ret.walk_ok
        /\ Len(ret.discovered) = 1
        /\ ret.discovered[1].sw_id = SwId("a", "R")
        /\ ret.discovered[1].source_id = SOURCE_ID_COLLECTOR
        /\ Len(ret.opened) = 1
        /\ ret.opened[1].path = env.directory \o "/a/swidtag/x.swidtag"

\* The part of a path from the last name of the configured root on, with
\* a closing slash.
FromRootName(path) ==
    LET slashes == {i \in 1..Len(env.directory) : At(env.directory, i) = "/"}
        last == CHOOSE i \in slashes : \A j \in slashes : j <= i
    IN  SubSeq(path, last, Len(path)) \o "/"

\* C8, as claimed: every directory of the walk named swidtag, the root
\* included, is in tag mode with all the directories below it, the mode is
\* never left, files of other directories give no record, and the tree
\* root/a/swidtag/x.swidtag plus root/b/y.swidtag gives exactly one record.
C8_EverySwidtagDirectory ==
    InventoryCalled =>
        /\ \A i \in 1..Len(ret.entered) :
               ret.entered[i].mode
                   <=> HasSwidtagDir(FromRootName(ret.entered[i].path))
        /\ \A i \in 1..Len(ret.opened) :
               HasSwidtagDir(FromRootName(ret.opened[i].path))
        /\ ExampleGivesOneRecord

\* C8, amended: a directory found below the configured root is in tag mode
\* exactly when it, or a directory above it and below the root, is named
\* swidtag (the root itself is never in tag mode, whatever its name); only
\* files of directories in tag mode are visited; and the tree
\* root/a/swidtag/x.swidtag plus root/b/y.swidtag gives, without targets,
\* exactly one record, the one of x.swidtag.
C8_TagModeSticky ==
    InventoryCalled =>
        /\ \A i \in 1..Len(ret.entered) :
               ret.entered[i].mode
                   <=> HasSwidtagDir(BelowRoot(ret.entered[i].path))
        /\ \A i \in 1..Len(ret.opened) :
               HasSwidtagDir(BelowRoot(ret.opened[i].path))
        /\ ExampleGivesOneRecord

\* C8: in one walk, b/y.swidtag was passed over, x.swidtag was visited
\* and so was z.swidtag in the directory sub below swidtag.
C8_Witness ==
    /\ InventoryCalled
    /\ call.targets = <<>>
    /\ abs_path(env.directory, "b") \in DOMAIN env.fs
    /\ \E i \in 1..Len(ret.entered) :
           /\ ret.entered[i].path = env.directory \o "/a/swidtag/sub"
           /\ ret.entered[i].mode
    /\ \E i \in 1..Len(ret.entered) :
           /\ ret.entered[i].path = env.directory \o "/b"
           /\ ~ret.entered[i].mode
    /\ \E i \in 1..Len(ret.opened) :
           ret.opened[i].path = env.directory \o "/a/swidtag/sub/z.swidtag"
    /\ \E i \in 1..Len(ret.opened) :
           ret.opened[i].path = env.directory \o "/a/swidtag/x.swidtag"
    /\ Len(ret.discovered) = 2

\* C10: only entries that are not directories are handed to chunk_map():
\* a directory whose name contains .swidtag is walked, never read as a
\* tag.
C10_DirectoriesNeverRead ==
    InventoryCalled => \A i \in 1..Len(ret.opened) : ~ret.opened[i].dir

(***************************************************************************)
(* Properties of construction and collect_events (Spec)                    *)
(***************************************************************************)
\* The construction had no URI, could not open the database, or got no
\* last event row.
ConstructedWithout(c) ==
    ~c.database \/ ~c.connects \/ ~c.query.ok \/ c.query.rows = <<>>

ConfiguredEpoch(c) ==
    IF c.eid_epoch_set THEN c.eid_epoch ELSE DEFAULT_EID_EPOCH

\* C9: collect_events gives NULL whenever sw_id_only is not set or no
\* database is attached; a collector constructed without a database never
\* has one, carries (1, configured or default epoch) in both stores and
\* answers every collect_events with NULL.
C9_EventsUnavailable ==
    /\ (ret.op = "collect_events" /\ (~call.sw_id_only \/ ~db)) =>
           (ret.result = "NULL" /\ ret.status = "unavailable")
    /\ ConstructedWithout(cfg) =>
           /\ ~db
           /\ inv_eid = <<1, ConfiguredEpoch(cfg)>>
           /\ ev_eid = <<1, ConfiguredEpoch(cfg)>>
           /\ ret.op = "collect_events" =>
                  (ret.result = "NULL" /\ events = <<>>)

\* C9: the database opened but gave no last event; after an inventory
\* call, collect_events with sw_id_only set gave NULL.
C9_Witness ==
    /\ cfg.database /\ cfg.connects /\ cfg.query.rows = <<>>
    /\ cfg.eid_epoch_set
    /\ env.events_query.ok /\ env.events_query.rows # <<>>
    /\ inventory # <<>>
    /\ ret.op = "collect_events"
    /\ call.sw_id_only
    /\ ret.result = "NULL"

(***************************************************************************)
(* Properties of extract_sw_id (SpecExtract)                               *)
(***************************************************************************)
ExtractCalled == ret.op = "extract_sw_id"

\* Where the token begins in the text.
Hits(s, token) ==
    {i \in 1..(Len(s) - Len(token) + 1) :
         SubSeq(s, i, i + Len(token) - 1) = token}

\* The text contains tagId="T" followed later by regid="R".
ContainsTagIdThenRegid(s, T, R) ==
    \E i \in Hits(s, TAGID_TOKEN \o T \o QUOTE) :
        \E j \in Hits(s, REGID_TOKEN \o R \o QUOTE) :
            j >= i + Len(TAGID_TOKEN \o T \o QUOTE)

\* No occurrence of the token is followed by a double quote.
NeverClosed(s, token) ==
    \A i \in Hits(s, token) :
        \A j \in (i + Len(token))..Len(s) : At(s, j) # QUOTE

\* The text is empty or lacks a token or a closing quote.
LacksTokenOrQuote(s) ==
    \/ s = ""
    \/ Hits(s, TAGID_TOKEN) = {}
    \/ Hits(s, REGID_TOKEN) = {}
    \/ NeverClosed(s, TAGID_TOKEN)
    \/ NeverClosed(s, REGID_TOKEN)

\* C5, as claimed: every text that contains tagId="T" followed later by
\* regid="R" gives R__T, and every text that is empty or lacks a token or a
\* closing quote gives NOT_FOUND.
C5_ExtractsEveryPattern ==
    ExtractCalled =>
        /\ ContainsTagIdThenRegid(call.swid_tag, call.T, call.R) =>
               (ret.status = SUCCESS /\ ret.sw_id = call.R \o "__" \o call.T)
        /\ LacksTokenOrQuote(call.swid_tag) => ret.status = NOT_FOUND

\* The pattern of the text is complete, ends within the window of
\* EXTRACT_WINDOW bytes and has no NUL byte before its end.
PatternInWindow ==
    /\ call.complete
    /\ call.end <= EXTRACT_WINDOW
    /\ \A i \in 1..call.end : At(call.swid_tag, i) # NUL

\* C5, amended: a text whose first tagId=" is followed by T and a quote and
\* whose first regid=" after that quote is followed by R and a quote, the
\* last quote being among the first 1023 bytes with no NUL byte before
\* it, gives R__T; a text whose pattern ends beyond these bytes or after a
\* NUL byte, that is empty, or that lacks a token or a closing quote, gives
\* NOT_FOUND and no identifier.
C5_ExtractsWithinWindow ==
    ExtractCalled =>
        /\ PatternInWindow =>
               (ret.status = SUCCESS /\ ret.sw_id = call.R \o "__" \o call.T)
        /\ ~PatternInWindow => (ret.status = NOT_FOUND /\ ret.sw_id = "")
        /\ LacksTokenOrQuote(call.swid_tag) => ret.status = NOT_FOUND

\* C5: after filler, the closing quote of the pattern is the last byte of
\* the window, more text follows, and the identifier was extracted.
C5_Witness ==
    /\ ExtractCalled
    /\ call.shape = "twoRegids"
    /\ call.T = "a" /\ call.R = "org.x"
    /\ call.end = EXTRACT_WINDOW
    /\ Len(call.swid_tag) > EXTRACT_WINDOW
    /\ ret.status = SUCCESS
    /\ ret.sw_id = "org.x__a"

(***************************************************************************)
(* Properties of read_swid_tags (SpecRead)                                 *)
(***************************************************************************)
ReadCalled == ret.op = "read_swid_tags"

\* The record read_swid_tags makes of a tag document.
GeneratorRecord(d) ==
    [record_id |-> 0, sw_id |-> d.id, sw_locator |-> "",
     source_id |-> SOURCE_ID_GENERATOR, record |-> d.doc]

\* C6: a stream of N extractable tag documents separated by one or more
\* empty lines gives success and appends exactly N records, in the order
\* of the stream, each of the generator source and holding its document,
\* whether the last document ends with a newline or not and whatever
\* empty lines come first, last or between two documents.
C6_OneRecordPerDocument ==
    ReadCalled =>
        /\ ret.status = SUCCESS
        /\ Len(inventory) = Len(ret.before) + Len(call.docs)
        /\ inventory =
               ret.before \o [i \in 1..Len(call.docs) |->
                                  GeneratorRecord(call.docs[i])]

\* C6: three documents, the long one not last, two empty lines between
\* them, an empty line first and no newline after the last document,
\* appended to an inventory that held a record.
C6_Witness ==
    /\ ReadCalled
    /\ Len(call.docs) = 3
    /\ call.docs[3].id = SwId("b", "R")
    /\ call.gap = 2 /\ call.lead = 1 /\ call.final = 0
    /\ Len(ret.before) = 1
    /\ ret.status = SUCCESS
    /\ Len(inventory) = 4

(***************************************************************************)
(* Properties of the SM2 key exchange (SpecKe)                             *)
(***************************************************************************)
\* The x and y of the product of the peer's point and the private key the
\* object holds now.
SecretOfCurrentKeys ==
    xy(PointOf((dh.otherPubKey.x * dh.priKey) % GroupOrder))

\* C11: get_shared_secret gives FALSE as long as set_public_key was never
\* called, and every secret it gives afterwards is the x and y of the
\* product of the private key the object holds now and the public key
\* that was set last, never one of a private key that was replaced.
C11_SecretOfCurrentKeys ==
    ret.op = "get_shared_secret" =>
        /\ ~prior.public_key_set => ~ret.result
        /\ ret.result => ret.secret = SecretOfCurrentKeys

\* C11: a secret was given, of a point of the curve on a working device,
\* after the private key was replaced, and it is not the secret of the
\* keys the object holds.
C11_StaleSecret ==
    /\ ret.op = "get_shared_secret"
    /\ ret.result
    /\ env.device
    /\ dh.otherPubKey \in CurvePoints
    /\ prior.private_key_set
    /\ ret.secret # SecretOfCurrentKeys

====
